---------------------------- MODULE Spec2Model ----------------------------
(***************************************************************************)
(* Model of translate-kit: three command-line scripts over SRT subtitle    *)
(* files (brackets.py, merge.py, translate.py) and the shared parser       *)
(* (common/parse.py, common/subtitle.py).                                  *)
(*                                                                         *)
(* Python strings are sequences of one-character strings.                  *)
(***************************************************************************)
EXTENDS Integers, Sequences, FiniteSets, TLC

VARIABLES
    \* ---- brackets.py / common.parse (one file of the run) ----
    bpc,                \* position of the script on the current file
    readable,           \* whether open()/read() of the input file succeeds
    content,            \* text of the input file
    items,              \* ghost: the blocks the input file was assembled from
    parsed,             \* ghost: what parse_srt returned, before any mutation
    subtitles,          \* list returned by parse_srt (objects mutated in place)
    modified_subtitles, \* list built by the main loop
    outfile,            \* strings passed to outfile.write, in order
    subtitle_counter,   \* write_srt's counter
    widx,               \* write_srt's position in the list it was given
    werr                \* write_srt caught an exception

bvars == <<bpc, readable, content, items, parsed, subtitles,
           modified_subtitles, outfile, subtitle_counter, widx, werr>>

VARIABLES
    \* ---- translate.py (process_srt_file on one file) ----
    tpc,            \* position of process_srt_file
    client,         \* whether OpenAI() was constructed (else client = None)
    exists,         \* os.path.exists(input_srt_file)
    tsubtitles,     \* what parse_srt returns for the file
    chunk_size,     \* the chunk_size argument of chunk_subtitles_as_text
    chunks,         \* list of chunk strings
    tasks,          \* one translate_chunk coroutine per chunk
    finished,       \* ghost: chunk numbers in the order their tasks returned
    results,        \* what asyncio.gather returned
    translated,     \* the output file: [written, text]
    ioerr           \* process_srt_file caught IOError while writing

tvars == <<tpc, client, exists, tsubtitles, chunk_size, chunks, tasks,
           finished, results, translated, ioerr>>

VARIABLES
    \* ---- merge.py ----
    mpc,            \* position of the script
    folder,         \* names in the input folder
    inputDirOk,     \* os.listdir(input_folder) succeeds
    outputDirOk,    \* os.makedirs(output_folder, exist_ok=True) succeeds
    pending,        \* names of the listing not yet iterated over
    outputs,        \* output folder: output name -> video last merged into it
    merged,         \* videos whose mkvmerge run succeeded
    failed,         \* videos whose mkvmerge run was logged as failed
    abortCause      \* the exception that ended the run, "" if none

mvars == <<mpc, folder, inputDirOk, outputDirOk, pending, outputs, merged,
           failed, abortCause>>

vars == <<bvars, tvars, mvars>>

-----------------------------------------------------------------------------
(* Bounds of the model *)

MaxSubs == 2        \* subtitle blocks in a file given to brackets.py
MaxTextLen == 4     \* length of a caption text given to the bracket stripper
MaxBlocks == 3      \* blocks in a file given to parse_srt
MaxN == 9           \* subtitles given to chunk_subtitles_as_text
MaxChunkSize == 6   \* chunk_size given to chunk_subtitles_as_text
MaxChunks == 2      \* chunks of a file given to process_srt_file
MaxFiles == 3       \* names in the folder given to merge.py

-----------------------------------------------------------------------------
(* Strings *)

NL == "\n"
Whitespace == {" ", "\n", "\t", "\r"}
Digits == {"0", "1", "2", "3", "4", "5", "6", "7", "8", "9"}
ARROW == <<"-", "-", ">">>

Min(S) == CHOOSE x \in S : \A y \in S : x <= y
Max(S) == CHOOSE x \in S : \A y \in S : x >= y

\* All sequences over S of length 0..n
SeqsUpTo(S, n) == UNION {[1..k -> S] : k \in 0..n}

\* str.strip()
Strip(s) ==
    LET keep == {i \in 1..Len(s) : s[i] \notin Whitespace}
    IN  IF keep = {} THEN <<>> ELSE SubSeq(s, Min(keep), Max(keep))

\* sub in s
Contains(s, sub) ==
    \E i \in 1..(Len(s) - Len(sub) + 1) : SubSeq(s, i, i + Len(sub) - 1) = sub

\* s.endswith(suf)
EndsWith(s, suf) ==
    /\ Len(suf) <= Len(s)
    /\ SubSeq(s, Len(s) - Len(suf) + 1, Len(s)) = suf

\* s.isdigit()
IsDigit(s) == Len(s) > 0 /\ \A i \in 1..Len(s) : s[i] \in Digits

\* sep.join(parts)
RECURSIVE Join(_, _)
Join(parts, sep) ==
    IF parts = <<>> THEN <<>>
    ELSE IF Len(parts) = 1 THEN parts[1]
    ELSE parts[1] \o sep \o Join(Tail(parts), sep)

\* s.split('\n')
RECURSIVE SplitFrom(_, _, _)
SplitFrom(s, i, cur) ==
    IF i > Len(s) THEN <<cur>>
    ELSE IF s[i] = NL THEN <<cur>> \o SplitFrom(s, i + 1, <<>>)
    ELSE SplitFrom(s, i + 1, Append(cur, s[i]))

SplitLines(s) == SplitFrom(s, 1, <<>>)

\* str(n) for n >= 0
DigitChar(d) ==
    CASE d = 0 -> "0" [] d = 1 -> "1" [] d = 2 -> "2" [] d = 3 -> "3"
      [] d = 4 -> "4" [] d = 5 -> "5" [] d = 6 -> "6" [] d = 7 -> "7"
      [] d = 8 -> "8" [] d = 9 -> "9"

RECURSIVE IntToStr(_)
IntToStr(n) ==
    IF n < 10 THEN <<DigitChar(n)>>
    ELSE Append(IntToStr(n \div 10), DigitChar(n % 10))

-----------------------------------------------------------------------------
(* common/subtitle.py *)

\* An attribute the object does not have
NoAttr == <<>>

\* Subtitle(id, timestamps, text)
Subtitle(id, timestamps, text) ==
    [id |-> id, timestamps |-> timestamps, text |-> text, id_line |-> NoAttr]

\* Subtitle.__str__
SubtitleStr(s) == s.id \o <<NL>> \o s.timestamps \o <<NL>> \o s.text

-----------------------------------------------------------------------------
(* common/parse.py *)

\* End of the match of \n\s*\n that starts at s[i], 0 when there is none.
\* \s* is greedy and backtracks to the last newline of the whitespace run.
SepEnd(s, i) ==
    IF s[i] # NL THEN 0
    ELSE LET run == {k \in i..Len(s) : \A m \in (i + 1)..k : s[m] \in Whitespace}
             cands == {j \in run : j > i /\ s[j] = NL}
         IN  IF cands = {} THEN 0 ELSE Max(cands)

\* re.split(r'\n\s*\n', s)
RECURSIVE ReSplitFrom(_, _, _)
ReSplitFrom(s, i, cur) ==
    IF i > Len(s) THEN <<cur>>
    ELSE LET e == SepEnd(s, i)
         IN  IF e > 0 THEN <<cur>> \o ReSplitFrom(s, e + 1, <<>>)
             ELSE ReSplitFrom(s, i + 1, Append(cur, s[i]))

SplitBlocks(s) == ReSplitFrom(Strip(s), 1, <<>>)

\* The fields of one block
BlockIdLine(lines) == Strip(lines[1])
BlockTimestamps(lines) == Strip(lines[2])
BlockTextFirstLine(lines) == Strip(lines[3])
BlockText(lines) == Strip(Join(SubSeq(lines, 3, Len(lines)), <<NL>>))

\* The test that admits a block: at least three lines, a digit id, an arrow
BlockAccepted(block) ==
    LET lines == SplitLines(Strip(block))
    IN  /\ Len(lines) >= 3
        /\ IsDigit(BlockIdLine(lines))
        /\ Contains(BlockTimestamps(lines), ARROW)

\* The loop body of parse_srt for one block: the subtitles it appends
ParseBlock(block) ==
    LET lines == SplitLines(Strip(block))
    IN  IF BlockAccepted(block)
        THEN <<Subtitle(BlockIdLine(lines), BlockTimestamps(lines), BlockText(lines))>>
        ELSE <<>>

RECURSIVE ParseBlocks(_)
ParseBlocks(blocks) ==
    IF blocks = <<>> THEN <<>>
    ELSE ParseBlock(blocks[1]) \o ParseBlocks(Tail(blocks))

\* f.read() of a file opened in text mode: "\r\n" and "\r" are read as "\n"
RECURSIVE ReadFrom(_, _)
ReadFrom(s, i) ==
    IF i > Len(s) THEN <<>>
    ELSE IF s[i] = "\r"
         THEN <<NL>> \o ReadFrom(s, IF i < Len(s) /\ s[i + 1] = NL THEN i + 2 ELSE i + 1)
         ELSE <<s[i]>> \o ReadFrom(s, i + 1)

ReadText(s) == ReadFrom(s, 1)

\* parse_srt(srt_file_path): [] when the file cannot be read
parse_srt(canRead, text) ==
    IF ~canRead THEN <<>> ELSE ParseBlocks(SplitBlocks(ReadText(text)))

-----------------------------------------------------------------------------
(* The scripts are separate programs: while one runs, the state of the      *)
(* others stays as it is here.                                              *)

TranslateIdle ==
    /\ tpc = "idle"
    /\ client = FALSE
    /\ exists = FALSE
    /\ tsubtitles = <<>>
    /\ chunk_size = 0
    /\ chunks = <<>>
    /\ tasks = <<>>
    /\ finished = <<>>
    /\ results = <<>>
    /\ translated = [written |-> FALSE, text |-> <<>>]
    /\ ioerr = FALSE

MergeIdle ==
    /\ mpc = "idle"
    /\ folder = {}
    /\ inputDirOk = FALSE
    /\ outputDirOk = FALSE
    /\ pending = {}
    /\ outputs = <<>>
    /\ merged = {}
    /\ failed = {}
    /\ abortCause = ""

BracketsIdle ==
    /\ bpc = "idle"
    /\ readable = FALSE
    /\ content = <<>>
    /\ items = <<>>
    /\ parsed = <<>>
    /\ subtitles = <<>>
    /\ modified_subtitles = <<>>
    /\ outfile = <<>>
    /\ subtitle_counter = 0
    /\ widx = 0
    /\ werr = FALSE

-----------------------------------------------------------------------------
(* brackets.py *)

\* End of the match of open.*?close that starts at s[i], 0 when there is
\* none: the first close after i, with no newline in between ('.' does not
\* match a newline, and the quantifier is lazy).
GroupEnd(s, i, open, close) ==
    IF s[i] # open THEN 0
    ELSE LET cands == {j \in (i + 1)..Len(s) :
                          /\ s[j] = close
                          /\ \A k \in (i + 1)..(j - 1) : s[k] # NL}
         IN  IF cands = {} THEN 0 ELSE Min(cands)

\* End of the match of \[.*?\]|\(.*?\) at s[i]: the alternatives in order
PatternEnd(s, i) ==
    IF GroupEnd(s, i, "[", "]") > 0 THEN GroupEnd(s, i, "[", "]")
    ELSE GroupEnd(s, i, "(", ")")

\* re.sub(pattern, '', s): leftmost non-overlapping matches removed
RECURSIVE ReSubFrom(_, _)
ReSubFrom(s, i) ==
    IF i > Len(s) THEN <<>>
    ELSE LET e == PatternEnd(s, i)
         IN  IF e > 0 THEN ReSubFrom(s, e + 1)
             ELSE <<s[i]>> \o ReSubFrom(s, i + 1)

\* remove_bracketed_and_parenthesized_text_from_subtitle
remove_bracketed_and_parenthesized_text_from_subtitle(subtitle) ==
    [subtitle EXCEPT !.text = Strip(ReSubFrom(subtitle.text, 1))]

\* write_srt: "if subtitle.text"
ShouldWriteAll(subtitle) == TRUE
ShouldWrite(subtitle) == subtitle.text # <<>>

\* write_srt: "subtitle.id_line = str(subtitle_counter)"
Renumber(subtitle, counter) == [subtitle EXCEPT !.id_line = IntToStr(counter)]

\* write_srt: the string written for one subtitle
WrittenBlock(subtitle) == SubtitleStr(subtitle) \o <<NL, NL>>

\* ---- the script on one .srt file of the input directory ----

\* subtitles = parse_srt(input_file_path)
ReadAndParse ==
    /\ bpc = "parse"
    /\ subtitles' = parse_srt(readable, content)
    /\ parsed' = subtitles'
    /\ bpc' = "strip"
    /\ UNCHANGED <<readable, content, items, modified_subtitles, outfile,
                   subtitle_counter, widx, werr>>
    /\ UNCHANGED <<tvars, mvars>>

\* one iteration of "for subtitle in subtitles", or, after the last one, the
\* call of write_srt up to its loop (the output file is opened, so truncated)
StripStep ==
    /\ bpc = "strip"
    /\ LET i == Len(modified_subtitles) + 1
       IN  IF i <= Len(subtitles)
           THEN LET m == remove_bracketed_and_parenthesized_text_from_subtitle(subtitles[i])
                IN  /\ subtitles' = [subtitles EXCEPT ![i] = m]
                    /\ modified_subtitles' = Append(modified_subtitles, m)
                    /\ UNCHANGED <<bpc, outfile, subtitle_counter, widx>>
           ELSE /\ bpc' = "write"
                /\ outfile' = <<>>
                /\ subtitle_counter' = 1
                /\ widx' = 1
                /\ UNCHANGED <<subtitles, modified_subtitles>>
    /\ UNCHANGED <<readable, content, items, parsed, werr>>
    /\ UNCHANGED <<tvars, mvars>>

\* write_srt: one iteration of its loop, or its normal end. The list holds
\* the objects of subtitles, so the new attribute shows in both lists.
WriteStep ==
    /\ bpc = "write"
    /\ IF widx <= Len(modified_subtitles)
       THEN /\ IF ShouldWrite(modified_subtitles[widx])
               THEN LET r == Renumber(modified_subtitles[widx], subtitle_counter)
                    IN  /\ modified_subtitles' = [modified_subtitles EXCEPT ![widx] = r]
                        /\ subtitles' = [subtitles EXCEPT ![widx] = r]
                        /\ outfile' = Append(outfile, WrittenBlock(r))
                        /\ subtitle_counter' = subtitle_counter + 1
               ELSE UNCHANGED <<modified_subtitles, subtitles, outfile, subtitle_counter>>
            /\ widx' = widx + 1
            /\ bpc' = bpc
       ELSE /\ bpc' = "done"
            /\ UNCHANGED <<modified_subtitles, subtitles, outfile, subtitle_counter, widx>>
    /\ UNCHANGED <<readable, content, items, parsed, werr>>
    /\ UNCHANGED <<tvars, mvars>>

\* write_srt: open() or write() raises; "except Exception" prints and returns
WriteError ==
    /\ bpc = "write"
    /\ werr' = TRUE
    /\ bpc' = "done"
    /\ UNCHANGED <<readable, content, items, parsed, subtitles,
                   modified_subtitles, outfile, subtitle_counter, widx>>
    /\ UNCHANGED <<tvars, mvars>>

\* ---- input files ----

\* A block of an input file: a serialized record, or other text
RecordItem(rec) == [isRecord |-> TRUE, rec |-> rec, raw |-> SubtitleStr(rec)]
TextItem(raw) == [isRecord |-> FALSE, rec |-> Subtitle(<<>>, <<>>, <<>>), raw |-> raw]

ItemRaws(its) == [k \in 1..Len(its) |-> its[k].raw]

\* The file whose blocks are its, separated by blank lines
FileOf(its) == Join(ItemRaws(its), <<NL, NL>>)

\* Records of the files given to brackets.py: arbitrary sequence numbers,
\* captions with and without bracketed parts, one of them on two lines
BracketIds == {<<"1">>, <<"7">>}
BracketTimestamps == {ARROW, <<"1">> \o ARROW}
BracketTexts == {<<"a">>, <<"[", "a", "]">>, <<"a", "(", "b", ")">>,
                 <<"(", "a", NL, "b", ")">>}
BracketRecords ==
    {Subtitle(i, t, x) : i \in BracketIds, t \in BracketTimestamps, x \in BracketTexts}

BracketItemLists ==
    {[k \in 1..Len(rs) |-> RecordItem(rs[k])] : rs \in SeqsUpTo(BracketRecords, MaxSubs)}

\* One-block files with every caption over a small alphabet
TextAlphabet == {"[", "]", "(", ")", "a", " ", NL}
SingleTextItemLists ==
    {<<RecordItem(Subtitle(<<"1">>, ARROW, x))>> : x \in SeqsUpTo(TextAlphabet, MaxTextLen)}

InitFile(itemLists) ==
    /\ bpc = "parse"
    /\ \/ /\ readable = TRUE
          /\ items \in itemLists
          /\ content = FileOf(items)
       \/ /\ readable = FALSE
          /\ items = <<>>
          /\ content = <<>>
    /\ parsed = <<>>
    /\ subtitles = <<>>
    /\ modified_subtitles = <<>>
    /\ outfile = <<>>
    /\ subtitle_counter = 0
    /\ widx = 0
    /\ werr = FALSE

InitBrackets == InitFile(BracketItemLists \cup SingleTextItemLists) /\ TranslateIdle /\ MergeIdle

NextBrackets == ReadAndParse \/ StripStep \/ WriteStep \/ WriteError

SpecBrackets == InitBrackets /\ [][NextBrackets]_vars

\* ---- files given to parse_srt: records and blocks it has to skip ----

ParseIds == {<<"1">>, <<"1", "2">>}
\* one-line and two-line captions; a timestamp line with a trailing blank; a
\* caption with a carriage return
ParseFields == {<<ARROW, <<"a">> >>,
                <<ARROW, <<"a", NL, " ", "b">> >>,
                <<ARROW \o <<" ">>, <<"a">> >>,
                <<ARROW, <<"a", "\r", "b">> >>}
ParseRecords == {Subtitle(i, f[1], f[2]) : i \in ParseIds, f \in ParseFields}

\* two lines only; a first line that is no number; a second line with no arrow
SkippedBlocks == {<<"1", NL>> \o ARROW,
                  <<"x", NL>> \o ARROW \o <<NL, "a">>,
                  <<"1", NL, "a", NL, "a">>}

ParseItems == {RecordItem(r) : r \in ParseRecords} \cup {TextItem(b) : b \in SkippedBlocks}

ParseItemLists == SeqsUpTo(ParseItems, MaxBlocks)

InitParse == InitFile(ParseItemLists) /\ TranslateIdle /\ MergeIdle

NextParse == ReadAndParse

SpecParse == InitParse /\ [][NextParse]_vars

-----------------------------------------------------------------------------
(* merge.py *)

\* str.lower(), on the letters of the file names below
LowerChar(ch) ==
    CASE ch = "M" -> "m" [] ch = "K" -> "k" [] ch = "V" -> "v"
      [] ch = "P" -> "p" [] ch = "S" -> "s" [] ch = "R" -> "r"
      [] ch = "T" -> "t" [] ch = "A" -> "a" [] ch = "B" -> "b"
      [] OTHER -> ch
Lower(s) == [k \in 1..Len(s) |-> LowerChar(s[k])]

\* os.path.splitext(name)[0] of a name with no directory part: the name up
\* to its last dot, unless only dots stand before that dot
SplitextRoot(name) ==
    LET dots == {k \in 1..Len(name) : name[k] = "."}
    IN  IF dots = {} THEN name
        ELSE IF \E k \in 1..(Max(dots) - 1) : name[k] # "."
             THEN SubSeq(name, 1, Max(dots) - 1)
             ELSE name

\* file_name.lower().endswith((".mp4", ".mkv"))
IsVideo(file_name) ==
    \/ EndsWith(Lower(file_name), <<".", "m", "p", "4">>)
    \/ EndsWith(Lower(file_name), <<".", "m", "k", "v">>)

SrtName(file_name) == SplitextRoot(file_name) \o <<".", "s", "r", "t">>
OutputName(file_name) ==
    SplitextRoot(file_name) \o <<"-", "m", "e", "r", "g", "e", "d", ".", "m", "k", "v">>

\* os.path.exists(srt_path)
SrtExists(file_name) == SrtName(file_name) \in folder

\* how subprocess.run(..., check=True) can end: mkvmerge exits 0, exits
\* non-zero (CalledProcessError), or cannot be started (OSError)
RunOutcomes == {"ok", "CalledProcessError", "OSError"}

\* the script up to its loop
MergeStart ==
    /\ mpc = "start"
    /\ IF ~outputDirOk
       THEN /\ mpc' = "aborted"
            /\ abortCause' = "makedirs"
            /\ UNCHANGED pending
       ELSE IF ~inputDirOk
       THEN /\ mpc' = "aborted"
            /\ abortCause' = "listdir"
            /\ UNCHANGED pending
       ELSE /\ mpc' = "loop"
            /\ pending' = folder
            /\ UNCHANGED abortCause
    /\ UNCHANGED <<folder, inputDirOk, outputDirOk, outputs, merged, failed>>
    /\ UNCHANGED <<bvars, tvars>>

\* one iteration of "for file_name in os.listdir(input_folder)"; the order
\* of the listing is arbitrary
MergeFile(file_name) ==
    /\ mpc = "loop"
    /\ file_name \in pending
    /\ pending' = pending \ {file_name}
    /\ IF IsVideo(file_name) /\ SrtExists(file_name)
       THEN \E outcome \in RunOutcomes :
               CASE outcome = "ok" ->
                      /\ outputs' = [n \in DOMAIN outputs \cup {OutputName(file_name)} |->
                                        IF n = OutputName(file_name) THEN file_name
                                        ELSE outputs[n]]
                      /\ merged' = merged \cup {file_name}
                      /\ UNCHANGED <<mpc, failed, abortCause>>
                 [] outcome = "CalledProcessError" ->
                      /\ failed' = failed \cup {file_name}
                      /\ UNCHANGED <<mpc, outputs, merged, abortCause>>
                 [] outcome = "OSError" ->
                      /\ mpc' = "aborted"
                      /\ abortCause' = "subprocess"
                      /\ UNCHANGED <<outputs, merged, failed>>
       ELSE UNCHANGED <<mpc, outputs, merged, failed, abortCause>>
    /\ UNCHANGED <<folder, inputDirOk, outputDirOk>>
    /\ UNCHANGED <<bvars, tvars>>

\* the loop is over: "Subtitle merge process completed."
MergeEnd ==
    /\ mpc = "loop"
    /\ pending = {}
    /\ mpc' = "done"
    /\ UNCHANGED <<folder, inputDirOk, outputDirOk, pending, outputs, merged,
                   failed, abortCause>>
    /\ UNCHANGED <<bvars, tvars>>

\* names that may be in the input folder
FileNames == {<<"a", ".", "m", "p", "4">>, <<"a", ".", "m", "k", "v">>,
              <<"a", ".", "M", "K", "V">>, <<"b", ".", "m", "k", "v">>,
              <<"a", ".", "s", "r", "t">>, <<"b", ".", "s", "r", "t">>,
              <<"n", ".", "t", "x", "t">>}

InitMerge ==
    /\ BracketsIdle
    /\ TranslateIdle
    /\ mpc = "start"
    /\ folder \in {F \in SUBSET FileNames : Cardinality(F) <= MaxFiles}
    /\ inputDirOk \in BOOLEAN
    /\ outputDirOk \in BOOLEAN
    /\ pending = {}
    /\ outputs = <<>>
    /\ merged = {}
    /\ failed = {}
    /\ abortCause = ""

NextMerge ==
    \/ MergeStart
    \/ \E file_name \in pending : MergeFile(file_name)
    \/ MergeEnd

SpecMerge == InitMerge /\ [][NextMerge]_vars

-----------------------------------------------------------------------------
(* Claims on brackets.py *)

\* The lines of a string handed to outfile.write
WrittenLines(w) == SplitLines(w)
WrittenTimestamps(w) == WrittenLines(w)[2]
\* the caption is what lies between the timestamp line and the closing "\n\n"
WrittenText(w) ==
    LET ls == WrittenLines(w) IN Join(SubSeq(ls, 3, Len(ls) - 2), <<NL>>)

\* C1: the sequence-number lines of the blocks written by write_srt are
\* "1", "2", ..., "k" in that order, whatever the original numbers were.
C1_WrittenNumbersAreOneToK ==
    \A k \in 1..Len(outfile) : WrittenLines(outfile[k])[1] = IntToStr(k)

TimestampAndText(i) ==
    [timestamps |-> parsed[i].timestamps, text |-> modified_subtitles[i].text]
HasText(b) == b.text # <<>>
C2_ExpectedBlocks ==
    SelectSeq([i \in 1..Len(parsed) |-> TimestampAndText(i)], HasText)
C2_WrittenBlocks ==
    [k \in 1..Len(outfile) |->
        [timestamps |-> WrittenTimestamps(outfile[k]), text |-> WrittenText(outfile[k])]]

\* C2: once write_srt has returned normally, the blocks written are exactly
\* the input subtitles whose stripped text is non-empty, in input order,
\* each with the timestamp line parse_srt gave it.
C2_NonEmptyKeptEmptyDropped ==
    (bpc = "done" /\ ~werr) => C2_WrittenBlocks = C2_ExpectedBlocks

\* a run where one subtitle was dropped and a later one was kept
C2_Witness ==
    /\ bpc = "done" /\ ~werr
    /\ Len(parsed) = 2
    /\ modified_subtitles[1].text = <<>>
    /\ Len(outfile) = 1

NoPairLeft(r, open, close) ==
    ~ \E i, j \in 1..Len(r) : i < j /\ r[i] = open /\ r[j] = close

InGroup(t, p) ==
    \E i, j \in 1..Len(t) :
        /\ i <= p /\ p <= j /\ i < j
        /\ \/ t[i] = "[" /\ t[j] = "]"
           \/ t[i] = "(" /\ t[j] = ")"

RECURSIVE OutsideFrom(_, _)
OutsideFrom(t, p) ==
    IF p > Len(t) THEN <<>>
    ELSE (IF InGroup(t, p) THEN <<>> ELSE <<t[p]>>) \o OutsideFrom(t, p + 1)

RECURSIVE IsSubsequence(_, _)
IsSubsequence(a, b) ==
    IF a = <<>> THEN TRUE
    ELSE IF b = <<>> THEN FALSE
    ELSE IF a[1] = b[1] THEN IsSubsequence(Tail(a), Tail(b))
    ELSE IsSubsequence(a, Tail(b))

\* C3: the stripped text holds no '[' later followed by ']' and no '(' later
\* followed by ')', and every character outside a bracketed or parenthesized
\* group of the input is kept, in order (up to leading/trailing whitespace).
C3_AllGroupsRemoved ==
    \A i \in 1..Len(modified_subtitles) :
        LET t == parsed[i].text
            r == modified_subtitles[i].text
        IN  /\ NoPairLeft(r, "[", "]")
            /\ NoPairLeft(r, "(", ")")
            /\ IsSubsequence(Strip(OutsideFrom(t, 1)), r)

-----------------------------------------------------------------------------
(* Claims on parse_srt *)

HasBlankLine(x) ==
    \E k \in 1..Len(SplitLines(x)) : Strip(SplitLines(x)[k]) = <<>>

\* the records the round trip is claimed for, as the claim words them
RoundTripRecord(r) ==
    /\ IsDigit(r.id)
    /\ Contains(r.timestamps, ARROW)
    /\ NL \notin {r.timestamps[k] : k \in 1..Len(r.timestamps)}
    /\ r.text # <<>>
    /\ ~HasBlankLine(r.text)
    /\ Strip(r.text) = r.text

\* ... and with the timestamp line free of leading and trailing whitespace
\* and no carriage return in the timestamp line or the text
HasCR(x) == "\r" \in {x[k] : k \in 1..Len(x)}
RoundTripRecordStripped(r) ==
    /\ RoundTripRecord(r)
    /\ Strip(r.timestamps) = r.timestamps
    /\ ~HasCR(r.timestamps)
    /\ ~HasCR(r.text)

\* the blocks the claim says are skipped
ClaimedSkipped(raw) ==
    LET ls == SplitLines(raw)
    IN  /\ ~HasBlankLine(raw)
        /\ \/ Len(ls) < 3
           \/ ~IsDigit(ls[1])
           \/ ~Contains(ls[2], ARROW)

IsRecordItem(it) == it.isRecord
RecordsOf(its) ==
    LET rs == SelectSeq(its, IsRecordItem) IN [k \in 1..Len(rs) |-> rs[k].rec]

\* C9 as stated: serialize, join by blank lines, parse: the same records in
\* the same order, whatever skipped blocks stand between them.
C9_RoundTripAsStated ==
    (/\ bpc # "parse"
     /\ readable
     /\ \A k \in 1..Len(items) :
           \/ items[k].isRecord /\ RoundTripRecord(items[k].rec)
           \/ ~items[k].isRecord /\ ClaimedSkipped(items[k].raw))
    => parsed = RecordsOf(items)

\* C9 amended: the same, for records whose timestamp line also has no
\* leading or trailing whitespace and whose fields hold no carriage return.
C9_RoundTrip ==
    (/\ bpc # "parse"
     /\ readable
     /\ \A k \in 1..Len(items) :
           \/ items[k].isRecord /\ RoundTripRecordStripped(items[k].rec)
           \/ ~items[k].isRecord /\ ClaimedSkipped(items[k].raw))
    => parsed = RecordsOf(items)

\* a file of two records (one with a two-line caption) around a skipped block
C9_Witness ==
    /\ bpc # "parse"
    /\ readable
    /\ Len(items) = 3
    /\ items[1].isRecord /\ RoundTripRecordStripped(items[1].rec)
    /\ ~items[2].isRecord /\ ClaimedSkipped(items[2].raw)
    /\ items[3].isRecord /\ RoundTripRecordStripped(items[3].rec)
    /\ Len(SplitLines(items[3].rec.text)) = 2
    /\ Len(parsed) = 2

-----------------------------------------------------------------------------
(* translate.py *)

Retries == 3        \* translate_chunk(..., retries=3, ...)
Delay == 5          \* translate_chunk(..., delay=5)
ChunkSize == 50     \* chunk_subtitles_as_text(subtitles, 50)

\* BQ stands for the backquote character
BQ == "'"
FENCE == <<BQ, BQ, BQ>>
FENCE_SRT == FENCE \o <<"s", "r", "t">>

\* translate.Subtitle(id_line, timestamps, text) and its __str__
TSubtitle(id_line, timestamps, text) ==
    [id_line |-> id_line, timestamps |-> timestamps, text |-> text]
TSubtitleStr(s) == s.id_line \o <<NL>> \o s.timestamps \o <<NL>> \o s.text

\* s.replace(old, "")
RECURSIVE RemoveAllFrom(_, _, _)
RemoveAllFrom(s, old, i) ==
    IF i > Len(s) THEN <<>>
    ELSE IF i + Len(old) - 1 <= Len(s) /\ SubSeq(s, i, i + Len(old) - 1) = old
         THEN RemoveAllFrom(s, old, i + Len(old))
         ELSE <<s[i]>> \o RemoveAllFrom(s, old, i + 1)

RemoveAll(s, old) == RemoveAllFrom(s, old, 1)

\* chunk_subtitles_as_text: "for i in range(0, len(subtitles), chunk_size)",
\* i counted from 0; the slice subtitles[i:i + chunk_size] joined
RECURSIVE ChunksFrom(_, _, _, _)
ChunksFrom(subs, size, step, i) ==
    IF i >= Len(subs) THEN <<>>
    ELSE LET last == IF i + size <= Len(subs) THEN i + size ELSE Len(subs)
             slice == SubSeq(subs, i + 1, last)
             strs == [k \in 1..Len(slice) |-> TSubtitleStr(slice[k])]
         IN  <<Join(strs, <<NL, NL>>)>> \o ChunksFrom(subs, size, step, i + step)

\* a slice one short of the step
chunk_subtitles_short_slice(subs, size) == ChunksFrom(subs, size - 1, size, 0)
chunk_subtitles_as_text(subs, size) == ChunksFrom(subs, size, size, 0)

\* ---- translate_chunk ----

\* a coroutine object that has not run yet
NewTask == [pc |-> "new", attempt |-> 0, calls |-> 0, ok |-> FALSE,
            text |-> <<>>, trace |-> <<>>]

Event(ev, d) == [ev |-> ev, d |-> d]

\* "return <text>" and "return None"
Return(t, text) == [t EXCEPT !.pc = "done", !.ok = TRUE, !.text = text]
ReturnNone(t) == [t EXCEPT !.pc = "done", !.ok = FALSE]

\* "for attempt in range(retries)": whether another iteration follows
LoopContinuesOnceMore(attempt) == attempt + 1 < Retries + 1
LoopContinues(attempt) == attempt + 1 < Retries

\* the end of an iteration that did not return: the next one, or the
\* "return None" after the loop
NextIteration(t) ==
    IF LoopContinues(t.attempt)
    THEN [t EXCEPT !.pc = "loop", !.attempt = @ + 1]
    ELSE ReturnNone([t EXCEPT !.attempt = @ + 1])

\* the validation of a response and the clean-up of an accepted one
LooksLikeSrt(translated_text) ==
    Contains(translated_text, ARROW) /\ EndsWith(Strip(translated_text), FENCE)
CleanUp(translated_text) ==
    Strip(RemoveAll(RemoveAll(translated_text, FENCE_SRT), FENCE))

\* the else branch of the validation: a warning, and the loop goes on
OnMalformed(t) == NextIteration([t EXCEPT !.trace = Append(@, Event("malformed", 0))])

\* "except OpenAIError"
OnOpenAIError(t) ==
    LET u == [t EXCEPT !.trace = Append(@, Event("apierror", 0))]
    IN  IF t.attempt < Retries - 1
        THEN [u EXCEPT !.pc = "sleeping",
                       !.trace = Append(@, Event("sleep", Delay * (t.attempt + 1)))]
        ELSE ReturnNone(u)

\* "except Exception"
OnException(t) == ReturnNone([t EXCEPT !.trace = Append(@, Event("exception", 0))])

\* What the API may answer for chunk c: a fenced translation, the same
\* without the fences, a fenced answer with no timestamp line, or an error
Body(c) == <<"#">> \o IntToStr(c) \o <<NL>> \o ARROW \o <<NL, "x">>
Outcomes(c) ==
    {[kind |-> "response", content |-> FENCE_SRT \o <<NL>> \o Body(c) \o <<NL>> \o FENCE \o <<NL>>],
     [kind |-> "response", content |-> Body(c)],
     [kind |-> "response", content |-> <<"#">> \o IntToStr(c) \o <<NL>> \o FENCE],
     [kind |-> "OpenAIError", content |-> <<>>],
     [kind |-> "Exception", content |-> <<>>]}

\* one iteration from the answer of the API on
OnOutcome(t, o) ==
    IF o.kind = "response"
    THEN LET translated_text == Strip(o.content)
         IN  IF LooksLikeSrt(translated_text)
             THEN Return([t EXCEPT !.trace = Append(@, Event("accepted", 0))],
                         CleanUp(translated_text))
             ELSE OnMalformed(t)
    ELSE IF o.kind = "OpenAIError" THEN OnOpenAIError(t)
    ELSE OnException(t)

Finish(c, t) == IF t.pc = "done" THEN Append(finished, c) ELSE finished

SetTask(c, t) ==
    /\ tasks' = [tasks EXCEPT ![c] = t]
    /\ finished' = Finish(c, t)
    /\ UNCHANGED <<tpc, client, exists, tsubtitles, chunk_size, chunks,
                   results, translated, ioerr>>
    /\ UNCHANGED <<bvars, mvars>>

\* the coroutine starts: "if not client: return None"
TaskBegin(c) ==
    /\ tpc = "gather"
    /\ tasks[c].pc = "new"
    /\ SetTask(c, IF client THEN [tasks[c] EXCEPT !.pc = "loop"] ELSE ReturnNone(tasks[c]))

\* "await asyncio.to_thread(client.chat.completions.create, ...)"
IssueCall(c) ==
    /\ tpc = "gather"
    /\ tasks[c].pc = "loop"
    /\ SetTask(c, [tasks[c] EXCEPT !.pc = "awaiting", !.calls = @ + 1,
                                   !.trace = Append(@, Event("call", 0))])

\* the call returns or raises
Respond(c) ==
    /\ tpc = "gather"
    /\ tasks[c].pc = "awaiting"
    /\ \E o \in Outcomes(c) : SetTask(c, OnOutcome(tasks[c], o))

\* "await asyncio.sleep(...)" is over
Wake(c) ==
    /\ tpc = "gather"
    /\ tasks[c].pc = "sleeping"
    /\ SetTask(c, NextIteration(tasks[c]))

\* ---- process_srt_file ----

\* asyncio.gather(*tasks): the results in the order of the tasks
GatherInCompletionOrder == [k \in 1..Len(finished) |-> tasks[finished[k]]]
Gather == [k \in 1..Len(tasks) |-> tasks[k]]

IsNotNone(r) == r.ok

\* the text written to the output file
FullTranslation(successful) ==
    LET full == Join([k \in 1..Len(successful) |-> successful[k].text], <<NL, NL>>)
    IN  IF EndsWith(full, <<NL>>) THEN full ELSE full \o <<NL>>

\* from the entry to "await asyncio.gather(*tasks)"
StartFile ==
    /\ tpc = "start"
    /\ IF ~exists \/ tsubtitles = <<>>
       THEN /\ tpc' = "done"
            /\ UNCHANGED <<chunks, tasks>>
       ELSE /\ chunks' = chunk_subtitles_as_text(tsubtitles, ChunkSize)
            /\ tasks' = [c \in 1..Len(chunks') |-> NewTask]
            /\ tpc' = "gather"
    /\ UNCHANGED <<client, exists, tsubtitles, chunk_size, finished, results,
                   translated, ioerr>>
    /\ UNCHANGED <<bvars, mvars>>

\* gather returns once every task has; the rest of the function runs without
\* a suspension point. The write may raise IOError, which is logged.
FinishFile ==
    /\ tpc = "gather"
    /\ \A c \in 1..Len(tasks) : tasks[c].pc = "done"
    /\ results' = Gather
    /\ LET successful_translations == SelectSeq(results', IsNotNone)
       IN  IF successful_translations = <<>>
           THEN UNCHANGED <<translated, ioerr>>
           ELSE \/ /\ translated' = [written |-> TRUE,
                                     text |-> FullTranslation(successful_translations)]
                   /\ UNCHANGED ioerr
                \/ /\ ioerr' = TRUE
                   /\ UNCHANGED translated
    /\ tpc' = "done"
    /\ UNCHANGED <<client, exists, tsubtitles, chunk_size, chunks, tasks, finished>>
    /\ UNCHANGED <<bvars, mvars>>

\* the subtitles of a file: numbered from 1, captions of one and two lines
NthSubtitle(k) ==
    TSubtitle(IntToStr(k), ARROW, IF k % 2 = 1 THEN <<"a">> ELSE <<"a", NL, "b">>)
SubtitleList(n) == [k \in 1..n |-> NthSubtitle(k)]

\* files of 1..MaxChunks full or just started chunks, and empty ones
FileSizes ==
    {0} \cup {ChunkSize * k : k \in 1..MaxChunks}
        \cup {ChunkSize * (k - 1) + 1 : k \in 1..MaxChunks}

InitTranslate ==
    /\ BracketsIdle
    /\ MergeIdle
    /\ tpc = "start"
    /\ client \in BOOLEAN
    /\ exists \in BOOLEAN
    /\ tsubtitles \in {SubtitleList(n) : n \in FileSizes}
    /\ chunk_size = ChunkSize
    /\ chunks = <<>>
    /\ tasks = <<>>
    /\ finished = <<>>
    /\ results = <<>>
    /\ translated = [written |-> FALSE, text |-> <<>>]
    /\ ioerr = FALSE

NextTranslate ==
    \/ StartFile
    \/ \E c \in 1..Len(tasks) : TaskBegin(c)
    \/ \E c \in 1..Len(tasks) : IssueCall(c)
    \/ \E c \in 1..Len(tasks) : Respond(c)
    \/ \E c \in 1..Len(tasks) : Wake(c)
    \/ FinishFile

SpecTranslate == InitTranslate /\ [][NextTranslate]_vars

\* ---- chunk_subtitles_as_text on its own ----

InitChunking ==
    /\ BracketsIdle
    /\ MergeIdle
    /\ tpc = "chunk"
    /\ client = FALSE
    /\ exists = FALSE
    /\ tsubtitles \in {SubtitleList(n) : n \in 0..MaxN}
    /\ chunk_size \in 1..MaxChunkSize
    /\ chunks = <<>>
    /\ tasks = <<>>
    /\ finished = <<>>
    /\ results = <<>>
    /\ translated = [written |-> FALSE, text |-> <<>>]
    /\ ioerr = FALSE

CallChunking ==
    /\ tpc = "chunk"
    /\ chunks' = chunk_subtitles_as_text(tsubtitles, chunk_size)
    /\ tpc' = "chunked"
    /\ UNCHANGED <<client, exists, tsubtitles, chunk_size, tasks, finished,
                   results, translated, ioerr>>
    /\ UNCHANGED <<bvars, mvars>>

NextChunking == CallChunking

SpecChunking == InitChunking /\ [][NextChunking]_vars

-----------------------------------------------------------------------------
(* Claims on translate.py *)

Chunk(c) == tasks[c]
AllTasksDone == \A c \in 1..Len(tasks) : Chunk(c).pc = "done"

\* whether an API call of chunk c yielded an accepted response
Accepted(c) ==
    \E p \in 1..Len(Chunk(c).trace) : Chunk(c).trace[p].ev = "accepted"

\* every answer of the API for chunk c carries this
Marker(c) == <<"#">> \o IntToStr(c) \o <<NL>>

C4_Bounded ==
    \A c \in 1..Len(tasks) :
        /\ Chunk(c).calls <= Retries
        /\ (Chunk(c).pc = "done" /\ ~Accepted(c)) => ~Chunk(c).ok
        /\ (translated.written /\ ~Accepted(c)) => ~Contains(translated.text, Marker(c))

\* steps a task can still take: three per loop iteration left
StepsLeft(t) ==
    CASE t.pc = "new" -> 3 * Retries + 1
      [] t.pc = "loop" -> 3 * (Retries - t.attempt)
      [] t.pc = "awaiting" -> 3 * (Retries - t.attempt) - 1
      [] t.pc = "sleeping" -> 3 * (Retries - t.attempt) - 2
      [] t.pc = "done" -> 0

RECURSIVE SumStepsLeft(_)
SumStepsLeft(ts) == IF ts = <<>> THEN 0 ELSE StepsLeft(ts[1]) + SumStepsLeft(Tail(ts))

\* steps process_srt_file can still take
FileStepsLeft ==
    CASE tpc = "start" -> 2 + (3 * Retries + 1) * Len(tsubtitles)
      [] tpc = "gather" -> 1 + SumStepsLeft(tasks)
      [] OTHER -> 0

C4_Progress ==
    /\ FileStepsLeft >= 0
    /\ tpc # "done" => ENABLED NextTranslate

\* C4: translate_chunk makes at most `retries` API calls for one chunk under
\* every sequence of API outcomes; it always terminates (every step lowers
\* the number of steps left, and a step is possible until the file is done);
\* and a chunk with no accepted response returns None and is absent from
\* the output file.
C4_AtMostRetriesCallsThenNone ==
    /\ [](C4_Bounded /\ C4_Progress)
    /\ [][FileStepsLeft' < FileStepsLeft]_vars

\* a chunk used up its calls, and the file was written without it
C4_Witness ==
    /\ tpc = "done"
    /\ translated.written
    /\ \E c \in 1..Len(tasks) : Chunk(c).calls = Retries /\ ~Chunk(c).ok

CallsBefore(tr, p) == Cardinality({q \in 1..(p - 1) : tr[q].ev = "call"})

\* C5: every API call of a chunk but its first is directly preceded by a
\* sleep of delay * n seconds, n the number of the failed attempt before it,
\* also after a malformed response; and no sleep follows the last attempt.
C5_EveryRetryAfterBackoff ==
    \A c \in 1..Len(tasks) :
        LET tr == Chunk(c).trace
        IN  \A p \in 1..Len(tr) :
                /\ (tr[p].ev = "call" /\ CallsBefore(tr, p) > 0) =>
                       /\ tr[p - 1].ev = "sleep"
                       /\ tr[p - 1].d = Delay * CallsBefore(tr, p)
                /\ tr[p].ev = "sleep" => CallsBefore(tr, p) < Retries

AcceptedChunks == SelectSeq([c \in 1..Len(tasks) |-> c], Accepted)
ExpectedTranslation ==
    Join([k \in 1..Len(AcceptedChunks) |-> Body(AcceptedChunks[k])], <<NL, NL>>) \o <<NL>>

\* C6: the output file is written only after all chunk tasks have finished;
\* it holds the accepted translations of exactly the successful chunks, in
\* chunk order, joined by blank lines; a chunk's result depends on its own
\* API outcomes alone; and the file is written when a chunk succeeded.
C6_ChunksIndependentInOrder ==
    /\ translated.written => (tpc = "done" /\ AllTasksDone)
    /\ translated.written => translated.text = ExpectedTranslation
    /\ \A c \in 1..Len(tasks) :
          Chunk(c).pc = "done" =>
              /\ Chunk(c).ok = Accepted(c)
              /\ Chunk(c).ok => Chunk(c).text = Body(c)
    /\ (tpc = "done" /\ ~ioerr) => (translated.written = (AcceptedChunks # <<>>))

\* the second chunk finished first, the first failed once on the way, and
\* both are in the file
C6_Witness ==
    /\ tpc = "done"
    /\ translated.written
    /\ Len(tasks) = 2
    /\ finished = <<2, 1>>
    /\ Chunk(1).ok /\ Chunk(2).ok
    /\ Chunk(1).calls = 2

\* a file with a failed and a successful chunk
C6_PartialSuccess ==
    /\ tpc = "done" /\ translated.written
    /\ Len(tasks) = 2 /\ ~Chunk(1).ok /\ Chunk(2).ok

ChunkBlocks(ch) == IF ch = <<>> THEN <<>> ELSE SplitBlocks(ch)

RECURSIVE Flatten(_)
Flatten(ss) == IF ss = <<>> THEN <<>> ELSE ss[1] \o Flatten(Tail(ss))

\* C8: chunk_subtitles_as_text returns ceil(n / chunk_size) chunks, none
\* empty, all but the last of exactly chunk_size blocks, the last of 1 to
\* chunk_size; the blocks of the chunks, concatenated, are the input
\* subtitles in input order, each once.
C8_FixedSizeSlices ==
    tpc = "chunked" =>
        LET n == Len(tsubtitles)
            m == Len(chunks)
            blocks == [c \in 1..m |-> ChunkBlocks(chunks[c])]
        IN  /\ m = (n + chunk_size - 1) \div chunk_size
            /\ \A c \in 1..m :
                  /\ Len(blocks[c]) >= 1
                  /\ Len(blocks[c]) <= chunk_size
                  /\ c < m => Len(blocks[c]) = chunk_size
            /\ Flatten(blocks) = [k \in 1..n |-> TSubtitleStr(tsubtitles[k])]

\* three chunks or more, the last one short
C8_Witness ==
    /\ tpc = "chunked"
    /\ Len(chunks) >= 3
    /\ chunk_size >= 2
    /\ Len(tsubtitles) % chunk_size # 0

-----------------------------------------------------------------------------
(* Claims on merge.py and on the runs *)

\* C7: an error while processing one file is logged and only that file is
\* skipped: the only errors that end a run early are a missing input
\* directory and a failed creation of the output directory, and a run that
\* is not ended by one of them goes through every file of the listing.
C7_OnlyDirectoryErrorsAbort ==
    /\ mpc = "aborted" => abortCause \in {"makedirs", "listdir"}
    /\ mpc = "done" => pending = {}

\* C10: any two distinct video files that were merged were given distinct
\* output paths, so each merged video has its own "<name>-merged.mkv".
C10_DistinctOutputs ==
    /\ \A v, w \in merged : v # w => OutputName(v) # OutputName(w)
    /\ \A v \in merged : outputs[OutputName(v)] = v

====
